---- MODULE Spec2Model ----
(***************************************************************************)
(* Model of src/server_server.rs: the server-to-server federation routes   *)
(* of the homeserver.                                                      *)
(*                                                                         *)
(*   Spec         the /send transaction ingestor, two requests in flight   *)
(*   SpecKeys     the storage keys the ingestor builds                     *)
(*   SpecBackfill the get_missing_events walk                              *)
(*   SpecResolve  send_request's destination resolution                    *)
(*   SpecRoutes   every federation entry point, one request at a time      *)
(*                                                                         *)
(* An action is one synchronous segment of a handler: the code between two *)
(* .await points (or a part of such a segment that touches no shared       *)
(* state).  The rooms store, the globals and the state resolver are not in *)
(* this file; their answers are nondeterministic choices and their effects *)
(* are modelled from the storage contract.                                 *)
(***************************************************************************)
EXTENDS Integers, Sequences, FiniteSets, TLC

VARIABLES
    federation_enabled, \* globals.federation_enabled()
    counter,            \* the value globals.next_count() last returned
    appended,           \* the append_pdu calls that returned Ok, in call order
    typing,             \* rooms.edus typing store
    effects,            \* kinds of store / network operations performed so far
    pc,                 \* per /send handler: position in the route
    pdus,               \* per /send handler: body.pdus
    n_edus,             \* per /send handler: length of body.edus
    edus_left,          \* per /send handler: EDUs of body.edus not yet visited
    edu,                \* per /send handler: the EDU the loop is at
    idx,                \* per /send handler: index of the current PDU
    resolved_map,       \* per /send handler: the route's resolved_map
    response,           \* per /send handler: what the route returned
    last,               \* per /send handler: what the latest PDU iteration did
    keys,               \* storage keys built (SpecKeys)
    pdu_json,           \* what rooms.get_pdu_json answers, per event id
    gm_pc,              \* get_missing_events: position in the route
    gm_body,            \* get_missing_events: the request body
    queued_events,      \* get_missing_events: the queue
    events,             \* get_missing_events: the events collected
    gm_i,               \* get_missing_events: the queue index i (0-based)
    gm_response,        \* get_missing_events: what the route returned
    sr_pc,              \* send_request: position in the function
    sr_request,         \* send_request: destination and request
    sr_delegated,       \* send_request: what request_well_known returned
    srv_lookups,        \* send_request: the names looked up for SRV records
    srv_records,        \* send_request: the targets the SRV lookup returned
    host,               \* send_request: the Host header override
    actual_destination, \* send_request: the URL the request is sent to
    request_map,        \* send_request: the object that is signed
    sr_response,        \* send_request: what the function returned
    route_response      \* what the other routes returned, per route

ingest_vars == <<counter, appended, typing, pc, pdus, n_edus, edus_left, edu, idx,
                 resolved_map, response, last>>

backfill_vars == <<pdu_json, gm_pc, gm_body, queued_events, events, gm_i, gm_response>>

resolve_vars == <<sr_pc, sr_request, sr_delegated, srv_lookups, srv_records, host,
                  actual_destination,
                  request_map, sr_response>>

vars == <<federation_enabled, effects, ingest_vars, keys, backfill_vars, resolve_vars,
          route_response>>

----------------------------------------------------------------------------
(* Bounds and input pools *)

\* the largest number of PDUs the server receives, over all transactions
MaxPdus == 2

\* the largest number of EDUs the server receives, over all transactions
MaxEdus == 1

Handlers == {"h1", "h2"}

\* room ids, as the bytes of their UTF-8 text ("!a", "!b")
RoomA == <<33, 97>>
RoomB == <<33, 98>>

None == "none"

\* no event_id member
NoId == <<>>

----------------------------------------------------------------------------
(* Storage keys *)

RECURSIVE BeBytes(_, _)
\* the low w bytes of n, most significant first
BeBytes(n, w) == IF w = 0 THEN <<>> ELSE Append(BeBytes(n \div 256, w - 1), n % 256)

RECURSIVE LeBytes(_, _)
\* the low w bytes of n, least significant first
LeBytes(n, w) == IF w = 0 THEN <<>> ELSE <<n % 256>> \o LeBytes(n \div 256, w - 1)

\* variant: u64::to_le_bytes
to_be_bytes_le(count) == LeBytes(count, 8)

\* u64::to_be_bytes
to_be_bytes(count) == BeBytes(count, 8)

\* variant: the count bytes are left out of the key
AppendKey_NoCount(room_id, count) == room_id \o <<255>>

\* room_id.as_bytes() ++ [0xff] ++ count.to_be_bytes()
AppendKey(room_id, count) == room_id \o <<255>> \o to_be_bytes(count)

\* room_id.as_bytes() ++ [0xff] ++ old_count.to_be_bytes() ++ [1]
InsertKey(room_id, old_count) == AppendKey(room_id, old_count) \o <<1>>

RECURSIVE LexLess(_, _)
\* byte-wise lexicographic order of two keys, the order of the pduid_pdu tree
LexLess(a, b) ==
    IF b = <<>> THEN FALSE
    ELSE IF a = <<>> THEN TRUE
    ELSE IF a[1] /= b[1] THEN a[1] < b[1]
    ELSE LexLess(Tail(a), Tail(b))

IsPrefix(a, b) == Len(a) <= Len(b) /\ SubSeq(b, 1, Len(a)) = a

----------------------------------------------------------------------------
(* PDUs and the normalizer *)

\* A wire PDU.  event_id is the id the sender put on the wire, if any.
Pdu(room, sender, state_key, tag, wire_id) ==
    [room_id |-> room, sender |-> sender, state_key |-> state_key,
     content |-> tag, event_id |-> wire_id]

\* ruma::signatures::reference_hash: a digest of the object without its
\* event_id member; collision-free, so the stripped object stands for it.
reference_hash(value) == [f \in (DOMAIN value) \ {"event_id"} |-> value[f]]

\* variant: an event_id already in the object is kept
process_incoming_pdu_keep(pdu) ==
    LET event_id == <<"$", reference_hash(pdu)>>
    IN  [event_id |-> event_id,
         value |-> IF pdu.event_id = NoId THEN [pdu EXCEPT !.event_id = event_id]
                   ELSE pdu]

\* (EventId, object with event_id inserted)
process_incoming_pdu(pdu) ==
    LET event_id == <<"$", reference_hash(pdu)>>
    IN  [event_id |-> event_id, value |-> [pdu EXCEPT !.event_id = event_id]]

EventIdOf(pdu) == process_incoming_pdu(pdu).event_id

P1 == Pdu(RoomA, "@alice", None, "m1", NoId)
\* a state PDU whose wire event_id names another event
P2 == Pdu(RoomA, "@bob", "", "s2", <<"$", reference_hash(P1)>>)
\* a PDU of another room whose wire event_id is not its reference hash
P3 == Pdu(RoomB, "@alice", None, "m3", <<"$", reference_hash(P1)>>)

PduPool == {P1, P2, P3}

RECURSIVE SeqsUpTo(_, _)
SeqsUpTo(S, n) ==
    IF n = 0 THEN {<<>>}
    ELSE LET shorter == SeqsUpTo(S, n - 1)
         IN  shorter \cup {Append(s, x) : s \in {t \in shorter : Len(t) = n - 1}, x \in S}

----------------------------------------------------------------------------
(* The /send route: send_transaction_message_route *)

Ok == [ok |-> TRUE, error |-> ""]
Err(msg) == [ok |-> FALSE, error |-> msg]

EmptyMap == [k \in {} |-> Ok]

\* BTreeMap::insert: a second insert under the same key replaces the first
MapInsert(m, k, v) == [x \in (DOMAIN m) \cup {k} |-> IF x = k THEN v ELSE m[x]]

NoResponse == [kind |-> "none", error |-> "", pdus |-> EmptyMap]
BadConfig == [kind |-> "err", error |-> "bad_config: Federation is disabled.", pdus |-> EmptyMap]
DbError == [kind |-> "err", error |-> "database", pdus |-> EmptyMap]
Panicked == [kind |-> "panic", error |-> "", pdus |-> EmptyMap]
OkResponse(m) == [kind |-> "ok", error |-> "", pdus |-> m]

\* what one iteration of the PDU loop did
NoStep == [event_id |-> NoId, exists |-> "-", requested |-> "-", fetch |-> "-", joined |-> "-",
           resolver |-> "-", placement |-> "-", counted |-> FALSE,
           appends |-> 0, db_error |-> "-", result |-> "-"]

\* error strings send_request can return to the ingestor
FetchErrors == {"Server returned bad response."}

\* error strings the state resolver can return
ResolverErrors == {"resolver failed"}

\* counts get_closest_parent can name in Insert(old_count)
InsertCounts == {17, 255}

\* ---- EDUs ----
Edu(decodes, edu_type, typing_field, user_id, room_id) ==
    [decodes |-> decodes, edu_type |-> edu_type, typing |-> typing_field,
     user_id |-> user_id, room_id |-> room_id]

EduPool == {
    Edu(FALSE, "-", "-", "-", "-"),
    Edu(TRUE, "m.presence", "-", "-", "-"),
    Edu(TRUE, "m.receipt", "-", "-", "-"),
    Edu(TRUE, "org.example.other", "-", "-", "-"),
    Edu(TRUE, "m.typing", "absent", "absent", "absent"),
    Edu(TRUE, "m.typing", "true", "@alice", "!a"),
    Edu(TRUE, "m.typing", "false", "@alice", "!a"),
    Edu(TRUE, "m.typing", "true", "absent", "!a"),
    Edu(TRUE, "m.typing", "false", "@alice", "absent") }

\* no EDU at hand: before and after the loop
NoEdu == Edu(FALSE, "none", "-", "-", "-")

\* utils::millis_since_unix_epoch() readings
Times == {1000}

\* the typing timeout added to the clock reading
TypingTimeout == 3000

\* ---- handler-local updates ----
\* variant: the PDUs are taken from the back of body.pdus
CurPdu_Reversed(h) == pdus[h][Len(pdus[h]) + 1 - idx[h]]

\* the PDU of the current loop iteration
CurPdu(h) == pdus[h][idx[h]]
CurId(h) == process_incoming_pdu(CurPdu(h)).event_id
CurValue(h) == process_incoming_pdu(CurPdu(h)).value

\* variant: an error is logged but not inserted into resolved_map
RecordAndContinue_SkipErrors(h, res, step) ==
    /\ resolved_map' = [resolved_map EXCEPT ![h] = IF res.ok THEN MapInsert(@, CurId(h), res)
                                                    ELSE @]
    /\ idx' = [idx EXCEPT ![h] = @ + 1]
    /\ pc' = [pc EXCEPT ![h] = "pdus"]
    /\ last' = [last EXCEPT ![h] = [step EXCEPT !.event_id = CurId(h),
                                                !.result = IF res.ok THEN "ok" ELSE res.error]]
    /\ UNCHANGED <<pdus, n_edus, edus_left, edu, response>>

\* resolved_map.insert(event_id, res), then the next loop iteration
RecordAndContinue(h, res, step) ==
    /\ resolved_map' = [resolved_map EXCEPT ![h] = MapInsert(@, CurId(h), res)]
    /\ idx' = [idx EXCEPT ![h] = @ + 1]
    /\ pc' = [pc EXCEPT ![h] = "pdus"]
    /\ last' = [last EXCEPT ![h] = [step EXCEPT !.event_id = CurId(h),
                                                !.result = IF res.ok THEN "ok" ELSE res.error]]
    /\ UNCHANGED <<pdus, n_edus, edus_left, edu, response>>

\* the route ends without a response body: `?` on a store error, or a panic
AbortRoute(h, resp, step) ==
    /\ pc' = [pc EXCEPT ![h] = "done"]
    /\ response' = [response EXCEPT ![h] = resp]
    /\ resolved_map' = [resolved_map EXCEPT ![h] = EmptyMap]
    /\ last' = [last EXCEPT ![h] = [step EXCEPT !.result = "abort"]]
    /\ UNCHANGED <<pdus, n_edus, edus_left, idx>>

\* the route ends in the PDU loop
Abort(h, resp, step) == AbortRoute(h, resp, step) /\ UNCHANGED edu

\* the route ends in the EDU loop, at EDU e
EduAbort(h, resp, e) == AbortRoute(h, resp, NoStep) /\ edu' = [edu EXCEPT ![h] = e]

RECURSIVE SumOver(_, _)
SumOver(f, S) ==
    IF S = {} THEN 0
    ELSE LET x == CHOOSE y \in S : TRUE IN f[x] + SumOver(f, S \ {x})

\* PDUs and EDUs of the transactions received so far
PdusReceived == SumOver([h \in Handlers |-> Len(pdus[h])], Handlers)
EdusReceived == SumOver(n_edus, Handlers)

\* ---- entry: lines 385-387 ----
SendDisabled(h) ==
    /\ pc[h] = "idle"
    /\ ~federation_enabled
    /\ pc' = [pc EXCEPT ![h] = "done"]
    /\ response' = [response EXCEPT ![h] = BadConfig]
    /\ UNCHANGED <<counter, appended, typing, pdus, n_edus, edus_left, edu, idx, resolved_map, last>>
    /\ UNCHANGED <<federation_enabled, effects>>

SendAccept(h) ==
    /\ pc[h] = "idle"
    /\ federation_enabled
    /\ \E body_pdus \in SeqsUpTo(PduPool, MaxPdus - PdusReceived),
          body_edus \in 0..(MaxEdus - EdusReceived) :
          /\ pdus' = [pdus EXCEPT ![h] = body_pdus]
          /\ n_edus' = [n_edus EXCEPT ![h] = body_edus]
          /\ edus_left' = [edus_left EXCEPT ![h] = body_edus]
    /\ pc' = [pc EXCEPT ![h] = "edus"]
    /\ idx' = [idx EXCEPT ![h] = 1]
    /\ UNCHANGED <<counter, appended, typing, edu, resolved_map, response, last>>
    /\ UNCHANGED <<federation_enabled, effects>>

\* ---- the EDU loop: lines 389-423 ----
EduNext(h, e) ==
    /\ edu' = [edu EXCEPT ![h] = e]
    /\ edus_left' = [edus_left EXCEPT ![h] = @ - 1]
    /\ UNCHANGED <<counter, appended, pc, pdus, n_edus, idx, resolved_map, response, last>>
    /\ UNCHANGED federation_enabled

\* variant: every EDU that is passed over takes a count
EduSkip_Counts(h) ==
    /\ pc[h] = "edus" /\ edus_left[h] > 0
    /\ \E e \in EduPool :
          /\ \/ ~e.decodes
             \/ e.decodes /\ e.edu_type /= "m.typing"
             \/ e.decodes /\ e.edu_type = "m.typing" /\ e.typing = "absent"
          /\ edu' = [edu EXCEPT ![h] = e]
    /\ edus_left' = [edus_left EXCEPT ![h] = @ - 1]
    /\ counter' = counter + 1
    /\ effects' = effects \cup {"count"}
    /\ UNCHANGED <<appended, pc, pdus, n_edus, idx, resolved_map, response, last>>
    /\ UNCHANGED <<typing, federation_enabled>>

\* Err(err) => continue; "m.presence", "m.receipt", _ => {}; no "typing" member
EduSkip(h) ==
    /\ pc[h] = "edus" /\ edus_left[h] > 0
    /\ \E e \in EduPool :
          /\ \/ ~e.decodes
             \/ e.decodes /\ e.edu_type /= "m.typing"
             \/ e.decodes /\ e.edu_type = "m.typing" /\ e.typing = "absent"
          /\ EduNext(h, e)
    /\ UNCHANGED <<typing, effects>>

\* "typing" present: the user_id and room_id members are unwrapped
EduTypingPanic(h) ==
    /\ pc[h] = "edus" /\ edus_left[h] > 0
    /\ \E e \in EduPool :
          /\ e.decodes /\ e.edu_type = "m.typing" /\ e.typing /= "absent"
          /\ e.user_id = "absent" \/ e.room_id = "absent"
          /\ EduAbort(h, Panicked, e)
    /\ UNCHANGED <<counter, appended, typing>>
    /\ UNCHANGED <<federation_enabled, effects>>

\* typing_add(user, room, 3000 + now) / typing_remove(user, room)
EduTyping(h) ==
    /\ pc[h] = "edus" /\ edus_left[h] > 0
    /\ \E e \in EduPool, now \in Times :
          /\ e.decodes /\ e.edu_type = "m.typing" /\ e.typing /= "absent"
          /\ e.user_id /= "absent" /\ e.room_id /= "absent"
          /\ typing' =
                IF e.typing = "true"
                THEN {t \in typing : ~(t.user_id = e.user_id /\ t.room_id = e.room_id)}
                       \cup {[user_id |-> e.user_id, room_id |-> e.room_id,
                               timeout |-> TypingTimeout + now]}
                ELSE {t \in typing : ~(t.user_id = e.user_id /\ t.room_id = e.room_id)}
          /\ EduNext(h, e)
    /\ effects' = effects \cup {"typing"}

\* typing_add(..)? / typing_remove(..)? returns a store error
EduTypingDbError(h) ==
    /\ pc[h] = "edus" /\ edus_left[h] > 0
    /\ \E e \in EduPool :
          /\ e.decodes /\ e.edu_type = "m.typing" /\ e.typing /= "absent"
          /\ e.user_id /= "absent" /\ e.room_id /= "absent"
          /\ EduAbort(h, DbError, e)
    /\ effects' = effects \cup {"typing"}
    /\ UNCHANGED <<counter, appended, typing>>
    /\ UNCHANGED federation_enabled

EduDone(h) ==
    /\ pc[h] = "edus" /\ edus_left[h] = 0
    /\ pc' = [pc EXCEPT ![h] = "pdus"]
    /\ edu' = [edu EXCEPT ![h] = NoEdu]
    /\ UNCHANGED <<counter, appended, typing, pdus, n_edus, edus_left, idx,
                   resolved_map, response, last>>
    /\ UNCHANGED <<federation_enabled, effects>>

\* ---- the PDU loop up to the state request: lines 433-455 ----
InLoop(h) == pc[h] = "pdus" /\ idx[h] <= Len(pdus[h])

\* variant: the error is recorded but the `continue` is missing
PduUnknownRoom_NoContinue(h) ==
    /\ InLoop(h)
    /\ resolved_map' = [resolved_map EXCEPT
                           ![h] = MapInsert(@, CurId(h), Err("Room is unknown to this server"))]
    /\ pc' = [pc EXCEPT ![h] = "await"]
    /\ last' = [last EXCEPT ![h] = [NoStep EXCEPT !.event_id = CurId(h), !.exists = "false"]]
    /\ effects' = effects \cup {"store_read", "network"}
    /\ UNCHANGED <<counter, appended, typing, pdus, n_edus, edus_left, edu, idx, response>>
    /\ UNCHANGED federation_enabled

\* db.rooms.exists(room_id)? is false
PduUnknownRoom(h) ==
    /\ InLoop(h)
    /\ RecordAndContinue(h, Err("Room is unknown to this server"),
                         [NoStep EXCEPT !.exists = "false"])
    /\ effects' = effects \cup {"store_read"}
    /\ UNCHANGED <<counter, appended, typing, federation_enabled>>

\* db.rooms.exists(room_id)? returns a store error
PduExistsDbError(h) ==
    /\ InLoop(h)
    /\ Abort(h, DbError, [NoStep EXCEPT !.event_id = CurId(h), !.db_error = "exists"])
    /\ effects' = effects \cup {"store_read"}
    /\ UNCHANGED <<counter, appended, typing, federation_enabled>>

\* body.body.origin: each transaction in flight comes from a server of its own
Origin(h) == IF h = "h1" THEN "remote.one" ELSE "remote.two"

\* the server of a PDU's sender
SenderServer(pdu) == "server.of." \o pdu.sender

\* variant: the state is requested from the server of the PDU's sender
PduFetchState_FromSender(h) ==
    /\ InLoop(h)
    /\ pc' = [pc EXCEPT ![h] = "await"]
    /\ last' = [last EXCEPT ![h] = [NoStep EXCEPT !.event_id = CurId(h), !.exists = "true",
                                                  !.requested = SenderServer(CurValue(h))]]
    /\ effects' = effects \cup {"store_read", "network"}
    /\ UNCHANGED <<counter, appended, typing, pdus, n_edus, edus_left, edu, idx, resolved_map,
                   response>>
    /\ UNCHANGED federation_enabled

\* the room exists: send_request(origin, get_room_state) is awaited
PduFetchState(h) ==
    /\ InLoop(h)
    /\ pc' = [pc EXCEPT ![h] = "await"]
    /\ last' = [last EXCEPT ![h] = [NoStep EXCEPT !.event_id = CurId(h), !.exists = "true",
                                                  !.requested = Origin(h)]]
    /\ effects' = effects \cup {"store_read", "network"}
    /\ UNCHANGED <<counter, appended, typing, pdus, n_edus, edus_left, edu, idx, resolved_map,
                   response>>
    /\ UNCHANGED federation_enabled

\* ---- after the state request: lines 456-638 ----
Awaiting(h) == pc[h] = "await"
IsState(pdu) == pdu.state_key /= None

\* variant: the failed state request is propagated with `?`
FetchFailed_HardFail(h) ==
    /\ Awaiting(h)
    /\ Abort(h, [kind |-> "err", error |-> "Server returned bad response.", pdus |-> EmptyMap],
             [last[h] EXCEPT !.fetch = "err"])
    /\ UNCHANGED <<counter, appended, typing, federation_enabled, effects>>

\* Err(err) => resolved_map.insert(event_id, Err(err.to_string()))
FetchFailed(h) ==
    /\ Awaiting(h)
    /\ \E err \in FetchErrors :
          RecordAndContinue(h, Err(err), [last[h] EXCEPT !.fetch = "err"])
    /\ UNCHANGED <<counter, appended, typing, federation_enabled, effects>>

\* globals.next_count(): the counter is incremented and its new value returned
next_count(c) == c + 1

Persisted(h, kind, count, pdu_id) ==
    [event_id |-> CurId(h), room_id |-> CurValue(h).room_id, kind |-> kind,
     count |-> count, pdu_id |-> pdu_id, by |-> h, index |-> idx[h]]

\* get_closest_parent(..)? returns a store error
PlaceDbError(h, step) ==
    /\ Abort(h, DbError, [step EXCEPT !.db_error = "get_closest_parent"])
    /\ effects' = effects \cup {"store_read"}
    /\ UNCHANGED <<counter, appended>>

\* variant: the placement is turned into a per-PDU error
PlaceNone_Recorded(h, step) ==
    /\ RecordAndContinue(h, Err("unsequenceable event"), [step EXCEPT !.placement = "none"])
    /\ effects' = effects \cup {"store_read"}
    /\ UNCHANGED <<counter, appended>>

\* _ => panic!("Not a sequential event or no parents found")
PlaceNone(h, step) ==
    /\ Abort(h, Panicked, [step EXCEPT !.placement = "none"])
    /\ effects' = effects \cup {"store_read"}
    /\ UNCHANGED <<counter, appended>>

\* Some(ClosestParent::Append), next_count()? returns a store error
PlaceAppendCountError(h, step) ==
    /\ Abort(h, DbError, [step EXCEPT !.placement = "append", !.db_error = "next_count"])
    /\ effects' = effects \cup {"store_read"}
    /\ UNCHANGED <<counter, appended>>

\* Some(ClosestParent::Append), append_pdu(..)? returns a store error
PlaceAppendStoreError(h, step) ==
    /\ counter' = next_count(counter)
    /\ Abort(h, DbError, [step EXCEPT !.placement = "append", !.counted = TRUE,
                                      !.db_error = "append_pdu"])
    /\ effects' = effects \cup {"store_read", "count"}
    /\ UNCHANGED appended

\* Some(ClosestParent::Append): lines 504-519 and 584-599
PlaceAppend(h, step) ==
    LET count == next_count(counter)
        pdu_id == AppendKey(CurValue(h).room_id, count)
    IN  /\ counter' = count
        /\ appended' = Append(appended, Persisted(h, "append", count, pdu_id))
        /\ RecordAndContinue(h, Ok, [step EXCEPT !.placement = "append",
                                                 !.counted = TRUE, !.appends = 1])
        /\ effects' = effects \cup {"store_read", "count", "append"}

\* Some(ClosestParent::Insert(old_count)), append_pdu(..)? returns a store error
PlaceInsertStoreError(h, step) ==
    /\ Abort(h, DbError, [step EXCEPT !.placement = "insert", !.db_error = "append_pdu"])
    /\ effects' = effects \cup {"store_read"}
    /\ UNCHANGED <<counter, appended>>

\* variant: success is recorded without the append_pdu call
PlaceInsert_NoStore(h, step) ==
    /\ RecordAndContinue(h, Ok, [step EXCEPT !.placement = "insert", !.appends = 1])
    /\ effects' = effects \cup {"store_read"}
    /\ UNCHANGED <<counter, appended>>

\* Some(ClosestParent::Insert(old_count)): lines 520-540 and 600-620
PlaceInsert(h, step) ==
    \E old_count \in InsertCounts :
        LET count == old_count
            pdu_id == InsertKey(CurValue(h).room_id, count)
        IN  /\ appended' = Append(appended, Persisted(h, "insert", count, pdu_id))
            /\ RecordAndContinue(h, Ok, [step EXCEPT !.placement = "insert", !.appends = 1])
            /\ effects' = effects \cup {"store_read", "append"}
            /\ UNCHANGED counter

\* match db.rooms.get_closest_parent(room_id, &pdu.prev_events, &their_current_state)?
Place(h, step) ==
    \/ PlaceDbError(h, step)
    \/ PlaceNone(h, step)
    \/ PlaceAppendCountError(h, step)
    \/ PlaceAppendStoreError(h, step)
    \/ PlaceAppend(h, step)
    \/ PlaceInsertStoreError(h, step)
    \/ PlaceInsert(h, step)

\* ---- non-state PDU: lines 489-545 ----
NonStateJoinedDbError(h) ==
    /\ Awaiting(h) /\ ~IsState(CurValue(h))
    /\ Abort(h, DbError, [last[h] EXCEPT !.fetch = "ok", !.db_error = "is_joined"])
    /\ effects' = effects \cup {"store_read"}
    /\ UNCHANGED <<counter, appended, typing, federation_enabled>>

\* variant: the membership check does not stop the PDU
NonStateNotJoined_Places(h) ==
    /\ Awaiting(h) /\ ~IsState(CurValue(h))
    /\ Place(h, [last[h] EXCEPT !.fetch = "ok", !.joined = "false"])
    /\ UNCHANGED <<typing, federation_enabled>>

\* !db.rooms.is_joined(&pdu.sender, room_id)?
NonStateNotJoined(h) ==
    /\ Awaiting(h) /\ ~IsState(CurValue(h))
    /\ RecordAndContinue(h, Err("User is not in this room"),
                         [last[h] EXCEPT !.fetch = "ok", !.joined = "false"])
    /\ effects' = effects \cup {"store_read"}
    /\ UNCHANGED <<counter, appended, typing, federation_enabled>>

NonStatePlaced(h) ==
    /\ Awaiting(h) /\ ~IsState(CurValue(h))
    /\ Place(h, [last[h] EXCEPT !.fetch = "ok", !.joined = "true"])
    /\ UNCHANGED <<typing, federation_enabled>>

\* ---- state PDU: lines 547-637 ----
\* db.rooms.room_state_full(room_id)? returns a store error
StateDbError(h) ==
    /\ Awaiting(h) /\ IsState(CurValue(h))
    /\ Abort(h, DbError, [last[h] EXCEPT !.fetch = "ok", !.db_error = "room_state_full"])
    /\ effects' = effects \cup {"store_read"}
    /\ UNCHANGED <<counter, appended, typing, federation_enabled>>

\* Err(e) => resolved_map.insert(event_id, Err(e.to_string()))
StateResolverError(h) ==
    /\ Awaiting(h) /\ IsState(CurValue(h))
    /\ \E e \in ResolverErrors :
          RecordAndContinue(h, Err(e), [last[h] EXCEPT !.fetch = "ok", !.resolver = "err"])
    /\ effects' = effects \cup {"store_read"}
    /\ UNCHANGED <<counter, appended, typing, federation_enabled>>

\* variant: the guard of the first match arm is dropped
StateNotResolved_Accepts(h) ==
    /\ Awaiting(h) /\ IsState(CurValue(h))
    /\ Place(h, [last[h] EXCEPT !.fetch = "ok", !.resolver = "ok_without"])
    /\ UNCHANGED <<typing, federation_enabled>>

\* Ok(_) without the event id among the resolved values
StateNotResolved(h) ==
    /\ Awaiting(h) /\ IsState(CurValue(h))
    /\ RecordAndContinue(h,
            Err("This event failed authentication, not found in resolved set"),
            [last[h] EXCEPT !.fetch = "ok", !.resolver = "ok_without"])
    /\ effects' = effects \cup {"store_read"}
    /\ UNCHANGED <<counter, appended, typing, federation_enabled>>

\* Ok(resolved) if resolved.values().any(|id| &event_id == id)
StatePlaced(h) ==
    /\ Awaiting(h) /\ IsState(CurValue(h))
    /\ Place(h, [last[h] EXCEPT !.fetch = "ok", !.resolver = "ok_with"])
    /\ UNCHANGED <<typing, federation_enabled>>

\* ---- line 640 ----
Finish(h) ==
    /\ pc[h] = "pdus" /\ idx[h] > Len(pdus[h])
    /\ pc' = [pc EXCEPT ![h] = "done"]
    /\ response' = [response EXCEPT ![h] = OkResponse(resolved_map[h])]
    /\ UNCHANGED <<counter, appended, typing, pdus, n_edus, edus_left, edu, idx, resolved_map, last>>
    /\ UNCHANGED <<federation_enabled, effects>>

IngestEntry(h) == SendDisabled(h) \/ SendAccept(h)

IngestSteps(h) ==
    \/ EduSkip(h) \/ EduTypingPanic(h) \/ EduTyping(h) \/ EduTypingDbError(h) \/ EduDone(h)
    \/ PduUnknownRoom(h) \/ PduExistsDbError(h) \/ PduFetchState(h)
    \/ FetchFailed(h)
    \/ NonStateJoinedDbError(h) \/ NonStateNotJoined(h) \/ NonStatePlaced(h)
    \/ StateDbError(h) \/ StateResolverError(h) \/ StateNotResolved(h) \/ StatePlaced(h)
    \/ Finish(h)

Ingest(h) == IngestEntry(h) \/ IngestSteps(h)

\* counter values the store can hold when the server starts
StartCounts == {254}

InitIngest ==
    /\ counter \in StartCounts
    /\ appended = <<>>
    /\ typing = {}
    /\ pc = [h \in Handlers |-> "idle"]
    /\ pdus = [h \in Handlers |-> <<>>]
    /\ n_edus = [h \in Handlers |-> 0]
    /\ edus_left = [h \in Handlers |-> 0]
    /\ edu = [h \in Handlers |-> NoEdu]
    /\ idx = [h \in Handlers |-> 1]
    /\ resolved_map = [h \in Handlers |-> EmptyMap]
    /\ response = [h \in Handlers |-> NoResponse]
    /\ last = [h \in Handlers |-> NoStep]

----------------------------------------------------------------------------
(* The storage keys of lines 504-540, applied to sampled rooms and counts *)

\* the largest number of keys built in one run
MaxKeys == 2

\* counts around the byte boundaries of the 8-byte encoding
CountSamples == {0, 1, 16, 17, 18, 41, 42, 254, 255, 256, 257, 65535, 65536, 65537}

KeyRooms == {RoomA, RoomB}

\* lines 505-508
BuildAppendKey ==
    /\ Len(keys) < MaxKeys
    /\ \E room_id \in KeyRooms, count \in CountSamples :
          keys' = Append(keys, [room_id |-> room_id, kind |-> "append", count |-> count,
                                pdu_id |-> AppendKey(room_id, count)])

\* lines 523-529
BuildInsertKey ==
    /\ Len(keys) < MaxKeys
    /\ \E room_id \in KeyRooms, old_count \in CountSamples :
          keys' = Append(keys, [room_id |-> room_id, kind |-> "insert", count |-> old_count,
                                pdu_id |-> InsertKey(room_id, old_count)])

InitKeys == keys = <<>>

----------------------------------------------------------------------------
(* get_missing_events_route: lines 647-686 *)

\* the longest latest_events list of a request
MaxLatest == 2

\* the largest small limit of a request
MaxLimit == 3

EventIds == {"$a", "$b", "$c", "$d"}

\* ids a request can name; "$x" is stored nowhere
RequestIds == EventIds \cup {"$x"}

Limits == (0..MaxLimit) \cup {10}

\* a PDU object of the store
Stored(event_id, prev_events, room_id) ==
    [present |-> TRUE, has_event_id |-> TRUE, event_id |-> event_id,
     has_prev_events |-> TRUE, prev_events |-> prev_events, room_id |-> room_id]

\* get_pdu_json(..) = None
Absent ==
    [present |-> FALSE, has_event_id |-> FALSE, event_id |-> "",
     has_prev_events |-> FALSE, prev_events |-> <<>>, room_id |-> <<>>]

\* a <- b <- c <- d
ChainStore ==
    [id \in EventIds |->
        CASE id = "$a" -> Stored("$a", <<>>, RoomA)
          [] id = "$b" -> Stored("$b", <<"$a">>, RoomA)
          [] id = "$c" -> Stored("$c", <<"$b">>, RoomA)
          [] id = "$d" -> Stored("$d", <<"$c">>, RoomA)]

\* d has the two parents b and c, which share the parent a
DiamondStore == [ChainStore EXCEPT !["$c"] = Stored("$c", <<"$a">>, RoomA),
                                   !["$d"] = Stored("$d", <<"$b", "$c">>, RoomA)]

\* the chain, c not stored locally
GapStore == [ChainStore EXCEPT !["$c"] = Absent]

\* prev_events pointers forming a cycle a -> b -> a
CycleStore == [ChainStore EXCEPT !["$a"] = Stored("$a", <<"$b">>, RoomA)]

\* the chain, c and d stored for another room
TwoRoomStore == [ChainStore EXCEPT !["$c"] = Stored("$c", <<"$b">>, RoomB),
                                   !["$d"] = Stored("$d", <<"$c">>, RoomB)]

\* stored objects lacking a member
NoEventIdStore == [ChainStore EXCEPT !["$c"].has_event_id = FALSE, !["$c"].event_id = ""]
NoPrevEventsStore == [ChainStore EXCEPT !["$c"].has_prev_events = FALSE,
                                        !["$c"].prev_events = <<>>]

Stores == {ChainStore, DiamondStore, GapStore, CycleStore, TwoRoomStore,
           NoEventIdStore, NoPrevEventsStore}

\* db.rooms.get_pdu_json(event_id)
get_pdu_json(event_id) ==
    IF event_id \in DOMAIN pdu_json THEN pdu_json[event_id] ELSE Absent

GmNoResponse == [kind |-> "none", error |-> "", events |-> <<>>]
GmBadConfig == [kind |-> "err", error |-> "bad_config: Federation is disabled.", events |-> <<>>]
GmErr(msg) == [kind |-> "err", error |-> msg, events |-> <<>>]
GmOk(evs) == [kind |-> "ok", error |-> "", events |-> evs]

NoBody == [room_id |-> <<>>, earliest_events |-> {}, latest_events |-> <<>>, limit |-> 0]

\* lines 651-653
GmDisabled ==
    /\ gm_pc = "idle"
    /\ ~federation_enabled
    /\ gm_pc' = "done"
    /\ gm_response' = GmBadConfig
    /\ UNCHANGED <<pdu_json, gm_body, queued_events, events, gm_i, effects>>

\* variant: the route without its federation_enabled test
GmAccept_NoCheck ==
    /\ gm_pc = "idle"
    /\ \E latest \in SeqsUpTo(RequestIds, MaxLatest), earliest \in SUBSET {"$a", "$b", "$c"},
          limit \in Limits :
          /\ gm_body' = [room_id |-> RoomA, earliest_events |-> earliest,
                         latest_events |-> latest, limit |-> limit]
          /\ queued_events' = latest
    /\ events' = <<>>
    /\ gm_i' = 0
    /\ gm_pc' = "walk"
    /\ UNCHANGED <<pdu_json, gm_response, effects>>

\* lines 655-658
GmAccept ==
    /\ gm_pc = "idle"
    /\ federation_enabled
    /\ \E latest \in SeqsUpTo(RequestIds, MaxLatest), earliest \in SUBSET {"$a", "$b", "$c"},
          limit \in Limits :
          /\ gm_body' = [room_id |-> RoomA, earliest_events |-> earliest,
                         latest_events |-> latest, limit |-> limit]
          /\ queued_events' = latest
    /\ events' = <<>>
    /\ gm_i' = 0
    /\ gm_pc' = "walk"
    /\ UNCHANGED <<pdu_json, gm_response, effects>>

\* variant: <= in place of <
LoopCond_Inclusive == gm_i < Len(queued_events) /\ Len(events) <= gm_body.limit

\* while i < queued_events.len() && events.len() < limit
LoopCond == gm_i < Len(queued_events) /\ Len(events) < gm_body.limit

\* queued_events[i], i counted from 0
Current == get_pdu_json(queued_events[gm_i + 1])

GmReturn(resp) ==
    /\ gm_pc' = "done"
    /\ gm_response' = resp
    /\ UNCHANGED <<pdu_json, gm_body, queued_events, events, gm_i>>

\* get_pdu_json(..)? returns a store error
GmDbError ==
    /\ gm_pc = "walk" /\ LoopCond
    /\ GmReturn(GmErr("database"))
    /\ effects' = effects \cup {"store_read"}

\* get_pdu_json(..)? = None: i += 1
GmSkipMissing ==
    /\ gm_pc = "walk" /\ LoopCond
    /\ ~Current.present
    /\ gm_i' = gm_i + 1
    /\ effects' = effects \cup {"store_read"}
    /\ UNCHANGED <<pdu_json, gm_pc, gm_body, queued_events, events, gm_response>>

\* the stored object has no event_id member: lines 663-667
GmNoEventId ==
    /\ gm_pc = "walk" /\ LoopCond
    /\ Current.present /\ ~Current.has_event_id
    /\ GmReturn(GmErr("bad_database: Event in db has no event_id field."))
    /\ effects' = effects \cup {"store_read"}

\* body.earliest_events.contains(pdu.event_id)
InEarliest(pdu) == pdu.event_id \in gm_body.earliest_events

\* variant: continue without i += 1
GmSkipEarliest_NoAdvance ==
    /\ gm_pc = "walk" /\ LoopCond
    /\ Current.present /\ Current.has_event_id
    /\ InEarliest(Current)
    /\ effects' = effects \cup {"store_read"}
    /\ UNCHANGED <<pdu_json, gm_pc, gm_body, queued_events, events, gm_i, gm_response>>

\* lines 669-670: i += 1; continue
GmSkipEarliest ==
    /\ gm_pc = "walk" /\ LoopCond
    /\ Current.present /\ Current.has_event_id
    /\ InEarliest(Current)
    /\ gm_i' = gm_i + 1
    /\ effects' = effects \cup {"store_read"}
    /\ UNCHANGED <<pdu_json, gm_pc, gm_body, queued_events, events, gm_response>>

\* the stored object has no prev_events member: lines 674-678
GmNoPrevEvents ==
    /\ gm_pc = "walk" /\ LoopCond
    /\ Current.present /\ Current.has_event_id
    /\ ~InEarliest(Current)
    /\ ~Current.has_prev_events
    /\ GmReturn(GmErr("bad_database: Invalid prev_events field of pdu in db."))
    /\ effects' = effects \cup {"store_read"}

\* variant: prev_events are inserted right behind the current id
GmEmit_Front ==
    /\ gm_pc = "walk" /\ LoopCond
    /\ Current.present /\ Current.has_event_id
    /\ ~InEarliest(Current)
    /\ Current.has_prev_events
    /\ queued_events' = SubSeq(queued_events, 1, gm_i + 1) \o Current.prev_events
                          \o SubSeq(queued_events, gm_i + 2, Len(queued_events))
    /\ events' = Append(events, Current)
    /\ gm_i' = gm_i + 1
    /\ effects' = effects \cup {"store_read"}
    /\ UNCHANGED <<pdu_json, gm_pc, gm_body, gm_response>>

\* lines 672-682: extend the queue, push the event, i += 1
GmEmit ==
    /\ gm_pc = "walk" /\ LoopCond
    /\ Current.present /\ Current.has_event_id
    /\ ~InEarliest(Current)
    /\ Current.has_prev_events
    /\ queued_events' = queued_events \o Current.prev_events
    /\ events' = Append(events, Current)
    /\ gm_i' = gm_i + 1
    /\ effects' = effects \cup {"store_read"}
    /\ UNCHANGED <<pdu_json, gm_pc, gm_body, gm_response>>

\* line 685
GmFinish ==
    /\ gm_pc = "walk" /\ ~LoopCond
    /\ GmReturn(GmOk(events))
    /\ UNCHANGED effects

BackfillEntry == GmDisabled \/ GmAccept

BackfillSteps ==
    \/ GmDbError \/ GmSkipMissing \/ GmNoEventId
    \/ GmSkipEarliest \/ GmNoPrevEvents \/ GmEmit \/ GmFinish

Backfill == BackfillEntry \/ BackfillSteps

InitBackfill ==
    /\ gm_pc = "idle"
    /\ gm_body = NoBody
    /\ queued_events = <<>>
    /\ events = <<>>
    /\ gm_i = 0
    /\ gm_response = GmNoResponse

----------------------------------------------------------------------------
(* send_request: lines 56-220 *)

\* Names are token sequences; ":" and "." are tokens of their own where the
\* code looks for them (find(':'), trim_end_matches('.')).
ExampleOrg == <<"example.org">>
ExampleOrgPort == <<"example.org", ":", "443">>
MatrixExampleOrg == <<"matrix.example.org">>
MatrixExampleOrgPort == <<"matrix.example.org", ":", "8443">>
FederationInternal == <<"federation.internal", ".">>
SrvExampleOrg == <<"srv.example.org">>

Destinations == {ExampleOrg, ExampleOrgPort}
WellKnownValues == {MatrixExampleOrg, MatrixExampleOrgPort}
SrvTargets == {FederationInternal, SrvExampleOrg}

\* globals.server_name()
ServerName == <<"our.server">>

NoName == <<>>

\* str::find(':').is_none()
HasNoColon(name) == \A k \in DOMAIN name : name[k] /= ":"

RECURSIVE trim_end_matches_dot(_)
\* str::trim_end_matches('.')
trim_end_matches_dot(name) ==
    IF name /= <<>> /\ name[Len(name)] = "."
    THEN trim_end_matches_dot(SubSeq(name, 1, Len(name) - 1))
    ELSE name

\* variant: the default port is appended to every name
WithDefaultPort_Always(name) == name \o <<":", "8448">>

\* if name.find(':').is_none() { name += ":8448" }
WithDefaultPort(name) == IF HasNoColon(name) THEN name \o <<":", "8448">> ELSE name

SrNoResponse == [kind |-> "none", error |-> ""]
SrErr(msg) == [kind |-> "err", error |-> msg]
SrOk == [kind |-> "ok", error |-> ""]

NoRequest == [destination |-> NoName, body_empty |-> TRUE, method |-> "", uri |-> ""]

\* requests a caller can pass: GET without a body, PUT with a body
Requests == {[body_empty |-> TRUE, method |-> "GET", uri |-> "/_matrix/federation/v1/state/!a?event_id=$e"],
             [body_empty |-> FALSE, method |-> "PUT", uri |-> "/_matrix/federation/v1/send/1"]}

SrReturn(resp) ==
    /\ sr_pc' = "done"
    /\ sr_response' = resp

\* lines 64-66
SrDisabled ==
    /\ sr_pc = "idle"
    /\ ~federation_enabled
    /\ SrReturn(SrErr("bad_config: Federation is disabled."))
    /\ UNCHANGED <<sr_request, sr_delegated, srv_lookups, srv_records, host,
                   actual_destination, request_map, effects>>

\* lines 68-70: the resolver cannot be set up
SrResolverError ==
    /\ sr_pc = "idle"
    /\ federation_enabled
    /\ SrReturn(SrErr("bad_config: Failed to set up trust dns resolver with system config."))
    /\ UNCHANGED <<sr_request, sr_delegated, srv_lookups, srv_records, host,
                   actual_destination, request_map, effects>>

\* lines 68-76: the resolver is set up, request_well_known is awaited
SrStart ==
    /\ sr_pc = "idle"
    /\ federation_enabled
    /\ \E destination \in Destinations, request \in Requests :
          sr_request' = [destination |-> destination, body_empty |-> request.body_empty,
                         method |-> request.method, uri |-> request.uri]
    /\ sr_pc' = "well_known"
    /\ effects' = effects \cup {"well_known"}
    /\ UNCHANGED <<sr_delegated, srv_lookups, srv_records, host, actual_destination,
                   request_map, sr_response>>

\* request_well_known = None: lines 91-97
SrWellKnownNone ==
    /\ sr_pc = "well_known"
    /\ actual_destination' = <<"https://">> \o WithDefaultPort(sr_request.destination)
    /\ sr_pc' = "resolved"
    /\ UNCHANGED <<sr_request, sr_delegated, srv_lookups, srv_records, host, request_map,
                   sr_response, effects>>

\* request_well_known = Some(delegated_hostname): the SRV lookup of lines 78-80 is awaited
SrWellKnownSome ==
    /\ sr_pc = "well_known"
    /\ \E delegated_hostname \in WellKnownValues :
          /\ sr_delegated' = delegated_hostname
          /\ srv_lookups' = Append(srv_lookups, <<"_matrix._tcp.">> \o delegated_hostname)
    /\ sr_pc' = "srv"
    /\ effects' = effects \cup {"srv"}
    /\ UNCHANGED <<sr_request, srv_records, host, actual_destination, request_map,
                   sr_response>>

\* Ok(Some(srv)): lines 83-84
SrSrvFound ==
    /\ sr_pc = "srv"
    /\ \E records \in SeqsUpTo(SrvTargets, 2) \ {<<>>} :
          /\ srv_records' = records
          /\ actual_destination' = <<"https://">> \o trim_end_matches_dot(records[1])
    /\ host' = sr_delegated
    /\ sr_pc' = "resolved"
    /\ UNCHANGED <<sr_request, sr_delegated, srv_lookups, request_map, sr_response, effects>>

\* the lookup fails or returns no record: lines 86-89
SrSrvNone ==
    /\ sr_pc = "srv"
    /\ actual_destination' = <<"https://">> \o WithDefaultPort(sr_delegated)
    /\ sr_pc' = "resolved"
    /\ UNCHANGED <<sr_request, sr_delegated, srv_lookups, srv_records, host, request_map,
                   sr_response, effects>>

\* try_into_http_request fails: lines 99-104
SrInvalidDestination ==
    /\ sr_pc = "resolved"
    /\ SrReturn(SrErr("Invalid destination"))
    /\ UNCHANGED <<sr_request, sr_delegated, srv_lookups, srv_records, host,
                   actual_destination, request_map, effects>>

\* variant: the destination member names the delegated host
SigningObject_ResolvedHost(request) ==
    LET members == {"method", "uri", "origin", "destination"}
                     \cup (IF request.body_empty THEN {} ELSE {"content"})
    IN  [m \in members |->
            CASE m = "method" -> <<request.method>>
              [] m = "uri" -> <<request.uri>>
              [] m = "origin" -> ServerName
              [] m = "destination" -> IF sr_delegated /= NoName THEN sr_delegated
                                      ELSE request.destination
              [] m = "content" -> <<"body">>]

\* the object given to sign_json: lines 106-127
SigningObject(request) ==
    LET members == {"method", "uri", "origin", "destination"}
                     \cup (IF request.body_empty THEN {} ELSE {"content"})
    IN  [m \in members |->
            CASE m = "method" -> <<request.method>>
              [] m = "uri" -> <<request.uri>>
              [] m = "origin" -> ServerName
              [] m = "destination" -> request.destination
              [] m = "content" -> <<"body">>]

\* lines 106-180: sign, set the headers, execute the request
SrSend ==
    /\ sr_pc = "resolved"
    /\ request_map' = SigningObject(sr_request)
    /\ sr_pc' = "http"
    /\ effects' = effects \cup {"http"}
    /\ UNCHANGED <<sr_request, sr_delegated, srv_lookups, srv_records, host,
                   actual_destination, sr_response>>

\* lines 183-219
SrResponse ==
    /\ sr_pc = "http"
    /\ \E resp \in {SrOk, SrErr("Server returned bad response."), SrErr("transport")} :
          SrReturn(resp)
    /\ UNCHANGED <<sr_request, sr_delegated, srv_lookups, srv_records, host,
                   actual_destination, request_map, effects>>

SendRequestEntry == SrDisabled \/ SrResolverError \/ SrStart

SendRequestSteps ==
    \/ SrWellKnownNone \/ SrWellKnownSome
    \/ SrSrvFound \/ SrSrvNone \/ SrInvalidDestination \/ SrSend \/ SrResponse

SendRequest == SendRequestEntry \/ SendRequestSteps

InitResolve ==
    /\ sr_pc = "idle"
    /\ sr_request = NoRequest
    /\ sr_delegated = NoName
    /\ srv_lookups = <<>>
    /\ srv_records = <<>>
    /\ host = NoName
    /\ actual_destination = NoName
    /\ request_map = [m \in {} |-> NoName]
    /\ sr_response = SrNoResponse

----------------------------------------------------------------------------
(* The routes without a loop: lines 222-375 and 692-717 *)

Routes == {"get_server_version", "get_server_keys", "get_server_keys_deprecated",
           "get_public_rooms_filtered_route", "get_public_rooms_route",
           "get_profile_information_route"}

KeyRoutes == {"get_server_keys", "get_server_keys_deprecated"}

\* routes that read the store once federation is enabled
StoreRoutes == {"get_public_rooms_filtered_route", "get_public_rooms_route",
                "get_profile_information_route"}

RtNone == [kind |-> "none", body |-> ""]
RtErr(msg) == [kind |-> "err", body |-> msg]
RtOk(body) == [kind |-> "ok", body |-> body]

\* if !db.globals.federation_enabled() { return ... }
RouteDisabled(r) ==
    /\ route_response[r] = RtNone
    /\ ~federation_enabled
    /\ route_response' =
          [route_response EXCEPT ![r] = IF r \in KeyRoutes
                                        THEN RtOk("Federation is disabled.")
                                        ELSE RtErr("bad_config: Federation is disabled.")]
    /\ UNCHANGED effects

\* the route's body: a response built from the store or the keypair
RouteServe(r) ==
    /\ route_response[r] = RtNone
    /\ federation_enabled
    /\ \/ route_response' = [route_response EXCEPT ![r] = RtOk(r)]
       \/ /\ r \in StoreRoutes
          /\ route_response' = [route_response EXCEPT ![r] = RtErr("database")]
    /\ effects' = IF r \in StoreRoutes THEN effects \cup {"store_read"} ELSE effects

OtherRoutes == \E r \in Routes : RouteDisabled(r) \/ RouteServe(r)

InitRoutesVars == route_response = [r \in Routes |-> RtNone]

----------------------------------------------------------------------------
(* Specifications *)

InitAll ==
    /\ federation_enabled \in BOOLEAN
    /\ effects = {}
    /\ InitIngest
    /\ InitKeys
    /\ pdu_json \in Stores
    /\ InitBackfill
    /\ InitResolve
    /\ InitRoutesVars

\* the /send route, two transactions in flight
Init == InitAll /\ pdu_json = ChainStore

Next ==
    /\ \E h \in Handlers : Ingest(h)
    /\ UNCHANGED <<keys, backfill_vars, resolve_vars, route_response>>

Spec == Init /\ [][Next]_vars

\* the storage keys
NextKeys ==
    /\ BuildAppendKey \/ BuildInsertKey
    /\ UNCHANGED <<federation_enabled, effects, ingest_vars, backfill_vars, resolve_vars,
                   route_response>>

SpecKeys == Init /\ [][NextKeys]_vars

\* get_missing_events
NextBackfill ==
    /\ Backfill
    /\ UNCHANGED <<federation_enabled, ingest_vars, keys, resolve_vars, route_response>>

SpecBackfill == InitAll /\ [][NextBackfill]_vars

\* the handler body of get_missing_events has no await between its entry and
\* its return: once entered it runs each loop iteration to the return
BackfillRuns ==
    /\ BackfillSteps
    /\ UNCHANGED <<federation_enabled, ingest_vars, keys, resolve_vars, route_response>>

SpecBackfillFair == SpecBackfill /\ WF_vars(BackfillRuns)

\* send_request
NextResolve ==
    /\ SendRequest
    /\ UNCHANGED <<federation_enabled, ingest_vars, keys, backfill_vars, route_response>>

SpecResolve == Init /\ [][NextResolve]_vars

\* every federation entry point; one request, of any route, is received
Quiet ==
    /\ \A h \in Handlers : pc[h] = "idle"
    /\ gm_pc = "idle"
    /\ sr_pc = "idle"
    /\ \A r \in Routes : route_response[r] = RtNone

NextRoutes ==
    \/ /\ Quiet
       /\ \E h \in Handlers : IngestEntry(h)
       /\ UNCHANGED <<keys, backfill_vars, resolve_vars, route_response>>
    \/ /\ \E h \in Handlers : IngestSteps(h)
       /\ UNCHANGED <<keys, backfill_vars, resolve_vars, route_response>>
    \/ /\ Quiet
       /\ BackfillEntry
       /\ UNCHANGED <<federation_enabled, ingest_vars, keys, resolve_vars, route_response>>
    \/ /\ BackfillSteps
       /\ UNCHANGED <<federation_enabled, ingest_vars, keys, resolve_vars, route_response>>
    \/ /\ Quiet
       /\ SendRequestEntry
       /\ UNCHANGED <<federation_enabled, ingest_vars, keys, backfill_vars, route_response>>
    \/ /\ SendRequestSteps
       /\ UNCHANGED <<federation_enabled, ingest_vars, keys, backfill_vars, route_response>>
    \/ /\ Quiet
       /\ OtherRoutes
       /\ UNCHANGED <<federation_enabled, ingest_vars, keys, backfill_vars, resolve_vars>>

SpecRoutes == InitAll /\ [][NextRoutes]_vars

----------------------------------------------------------------------------
(* Properties of the /send route, checked under Spec *)

\* the derived event ids of a transaction's PDUs
DerivedIds(h) == {EventIdOf(pdus[h][k]) : k \in 1..Len(pdus[h])}

\* C1 as stated: a returned result map has as many entries as the
\* transaction has PDUs, duplicates included, and holds every derived id.
C1_OneEntryPerPdu ==
    \A h \in Handlers :
        response[h].kind = "ok" =>
            /\ Cardinality(DOMAIN response[h].pdus) = Len(pdus[h])
            /\ DerivedIds(h) \subseteq DOMAIN response[h].pdus

\* C1 amended: the keys of a returned result map are exactly the derived
\* event ids of the transaction's PDUs, one entry per distinct id; PDUs with
\* the same derived id share one entry.
C1_OneEntryPerEventId ==
    \A h \in Handlers :
        response[h].kind = "ok" =>
            /\ DOMAIN response[h].pdus = DerivedIds(h)
            /\ Cardinality(DOMAIN response[h].pdus) = Cardinality(DerivedIds(h))
            /\ Cardinality(DOMAIN response[h].pdus) <= Len(pdus[h])

\* a transaction that names the same PDU twice was answered with one entry
C1_Witness ==
    \E h \in Handlers :
        /\ response[h].kind = "ok"
        /\ Len(pdus[h]) = 2 /\ pdus[h][1] = pdus[h][2]
        /\ Cardinality(DOMAIN response[h].pdus) = 1

\* the error strings the PDU loop inserts into resolved_map
RecordedErrors ==
    {"Room is unknown to this server", "User is not in this room",
     "This event failed authentication, not found in resolved set"}
        \cup FetchErrors \cup ResolverErrors

\* C2 as stated: every failure while processing a PDU, a placement that is
\* neither Append nor Insert and a store error included, is recorded and the
\* later PDUs still get their entries: a handler that began the PDU loop
\* ends with a result map holding every PDU's id.
C2_AllFailuresRecorded ==
    \A h \in Handlers :
        (pc[h] = "done" /\ last[h].event_id /= NoId) =>
            /\ response[h].kind = "ok"
            /\ DerivedIds(h) \subseteq DOMAIN response[h].pdus

C2_Inv ==
    \A h \in Handlers :
        /\ last[h].result \in RecordedErrors =>
              /\ pc[h] \in {"pdus", "done"}
              /\ pc[h] = "done" => response[h] = OkResponse(resolved_map[h])
              /\ last[h].event_id \in DOMAIN resolved_map[h]
              /\ resolved_map[h][last[h].event_id] = Err(last[h].result)
        /\ response[h].kind = "ok" => DerivedIds(h) \subseteq DOMAIN response[h].pdus
        /\ (last[h].result = "abort" /\ last[h].event_id /= NoId) =>
              /\ last[h].placement = "none" \/ last[h].db_error /= "-"
              /\ last[h].placement = "none" => response[h] = Panicked
              /\ last[h].db_error /= "-" => response[h] = DbError
              /\ pc[h] = "done"

C2_Step ==
    \A h \in Handlers :
        (idx'[h] /= idx[h] /\ last'[h].result \in RecordedErrors) =>
            /\ resolved_map'[h] = MapInsert(resolved_map[h], CurId(h), Err(last'[h].result))
            /\ \A g \in Handlers \ {h} : resolved_map'[g] = resolved_map[g]
            /\ idx'[h] = idx[h] + 1
            /\ pc'[h] = "pdus"
            /\ appended' = appended
            /\ counter' = counter

\* C2 amended: an unknown room, a failed state request, a sender that is not
\* joined, a resolver rejection and a resolver error are recorded against
\* the PDU at hand only, and the loop goes on to the next PDU, so that a
\* returned map holds an entry for every PDU.  A placement that is neither
\* Append nor Insert panics and a store error returns that error: either
\* ends the route without a result map, and no later PDU is processed.
C2_RecoverableFailuresRecorded == []C2_Inv /\ [][C2_Step]_vars

\* a two-PDU transaction whose first PDU failed and whose second succeeded
C2_Witness ==
    \E h \in Handlers :
        /\ response[h].kind = "ok"
        /\ Len(pdus[h]) = 2
        /\ ~response[h].pdus[EventIdOf(pdus[h][1])].ok
        /\ response[h].pdus[EventIdOf(pdus[h][2])].ok

IsStateId(event_id) == event_id /= NoId /\ event_id[2].state_key /= None

NotResolvedError == "This event failed authentication, not found in resolved set"

\* C3 as stated: for a state PDU whose state request succeeded, the PDU is
\* appended and recorded as success exactly when the resolver succeeds with
\* the PDU's id among the resolved values.
C3_AcceptedIffResolved ==
    \A h \in Handlers :
        (IsStateId(last[h].event_id) /\ last[h].fetch = "ok" /\ last[h].result /= "-") =>
            /\ (last[h].result = "ok" /\ last[h].appends = 1) <=> (last[h].resolver = "ok_with")
            /\ last[h].resolver = "ok_without" =>
                  (last[h].result = NotResolvedError /\ last[h].appends = 0)
            /\ last[h].resolver = "err" =>
                  (last[h].result \in ResolverErrors /\ last[h].appends = 0)

\* a state PDU's iteration ends in this step, its state request having succeeded
StateStepEnds(h) ==
    /\ pc[h] = "await" /\ pc'[h] /= "await"
    /\ IsState(CurValue(h))
    /\ last'[h].fetch = "ok"

C3_Step ==
    \A h \in Handlers :
        StateStepEnds(h) =>
            LET step == last'[h]
                event_id == CurId(h)
            IN  /\ (step.result = "ok") <=>
                      /\ step.resolver = "ok_with"
                      /\ step.placement \in {"append", "insert"}
                      /\ step.db_error = "-"
                /\ step.result = "ok" =>
                      /\ Len(appended') = Len(appended) + 1
                      /\ SubSeq(appended', 1, Len(appended)) = appended
                      /\ appended'[Len(appended')].event_id = event_id
                      /\ appended'[Len(appended')].room_id = CurValue(h).room_id
                      /\ resolved_map'[h] = MapInsert(resolved_map[h], event_id, Ok)
                /\ step.result /= "ok" => appended' = appended
                /\ step.resolver = "ok_without" =>
                      resolved_map'[h] = MapInsert(resolved_map[h], event_id, Err(NotResolvedError))
                /\ step.resolver = "err" =>
                      \E e \in ResolverErrors :
                          resolved_map'[h] = MapInsert(resolved_map[h], event_id, Err(e))
                /\ (step.resolver = "ok_with" /\ step.result /= "ok") =>
                      /\ response'[h] \in {Panicked, DbError}
                      /\ pc'[h] = "done"

\* C3 amended: for a state PDU whose state request succeeded, success is
\* recorded exactly when the resolver succeeds with the PDU's id among the
\* resolved values, get_closest_parent returns Append or Insert and no store
\* call fails, and then exactly one append is made for it.  With the id
\* resolved but no Append or Insert placement the route panics, and a failing
\* store call ends the route with that error: nothing is appended and no
\* result is recorded.  The two error results are as stated.
C3_AcceptedIffResolvedAndPlaced == [][C3_Step]_vars

\* a state PDU was resolved, placed and appended
C3_Witness ==
    \E h \in Handlers :
        /\ IsStateId(last[h].event_id)
        /\ last[h].resolver = "ok_with" /\ last[h].result = "ok"
        /\ appended /= <<>>
        /\ appended[Len(appended)].event_id = last[h].event_id

\* C4: two different PDUs of one room placed as Insert with the same
\* old_count are persisted under different keys, the later key extending
\* the 0x01 suffix of the earlier one.
C4_InsertsDoNotAlias ==
    \A i, j \in DOMAIN appended :
        (/\ i < j
         /\ appended[i].kind = "insert" /\ appended[j].kind = "insert"
         /\ appended[i].room_id = appended[j].room_id
         /\ appended[i].count = appended[j].count
         /\ appended[i].event_id /= appended[j].event_id) =>
            /\ appended[i].pdu_id /= appended[j].pdu_id
            /\ IsPrefix(appended[i].pdu_id, appended[j].pdu_id)

\* C6: two PDUs of one room placed as Append, in one transaction or in two
\* transactions in flight together, get fresh counts and distinct keys
\* room_id || 0xFF || count_be, the one appended later having the larger key.
C6_AppendsDistinctIncreasing ==
    \A i, j \in DOMAIN appended :
        (/\ i < j
         /\ appended[i].kind = "append" /\ appended[j].kind = "append"
         /\ appended[i].room_id = appended[j].room_id) =>
            /\ appended[i].count < appended[j].count
            /\ appended[j].count <= counter
            /\ appended[i].pdu_id = appended[i].room_id \o <<255>> \o BeBytes(appended[i].count, 8)
            /\ appended[j].pdu_id = appended[j].room_id \o <<255>> \o BeBytes(appended[j].count, 8)
            /\ appended[i].pdu_id /= appended[j].pdu_id
            /\ LexLess(appended[i].pdu_id, appended[j].pdu_id)

\* two transactions in flight together each appended to the same room
C6_Witness ==
    \E i, j \in DOMAIN appended :
        /\ i < j
        /\ appended[i].kind = "append" /\ appended[j].kind = "append"
        /\ appended[i].room_id = appended[j].room_id
        /\ appended[i].by /= appended[j].by
        /\ pc[appended[i].by] = "pdus" /\ pc[appended[j].by] = "pdus"

----------------------------------------------------------------------------
(* Properties of the storage keys, checked under SpecKeys *)

\* C5: within one room the Insert(c) key is room_id || 0xFF || c_be || 0x01,
\* lies strictly above the Append key of count c and strictly below the
\* Append key of count c + 1, and Append keys grow with their count.
C5_KeyOrder ==
    /\ \A i \in DOMAIN keys :
          keys[i].kind = "insert" =>
              keys[i].pdu_id = keys[i].room_id \o <<255>> \o BeBytes(keys[i].count, 8) \o <<1>>
    /\ \A i, j \in DOMAIN keys :
          keys[i].room_id = keys[j].room_id =>
              /\ (keys[i].kind = "insert" /\ keys[j].kind = "append"
                    /\ keys[j].count = keys[i].count) =>
                        LexLess(keys[j].pdu_id, keys[i].pdu_id)
              /\ (keys[i].kind = "insert" /\ keys[j].kind = "append"
                    /\ keys[j].count = keys[i].count + 1) =>
                        LexLess(keys[i].pdu_id, keys[j].pdu_id)
              /\ (keys[i].kind = "append" /\ keys[j].kind = "append"
                    /\ keys[i].count < keys[j].count) =>
                        LexLess(keys[i].pdu_id, keys[j].pdu_id)

\* the Insert(17) key of a room, as bytes, next to the room's Append key of count 18
C5_Witness ==
    \E i, j \in DOMAIN keys :
        /\ keys[i].kind = "insert" /\ keys[i].count = 17 /\ keys[i].room_id = RoomA
        /\ keys[i].pdu_id = <<33, 97, 255, 0, 0, 0, 0, 0, 0, 0, 17, 1>>
        /\ keys[j].kind = "append" /\ keys[j].count = 18 /\ keys[j].room_id = RoomA

----------------------------------------------------------------------------
(* Properties of get_missing_events, checked under SpecBackfill *)

\* C7: the events collected, and the list returned, hold no event whose id
\* is in earliest_events and never more than limit events; with limit = 0
\* the list is empty.
C7_EarliestAndLimit ==
    /\ Len(events) <= gm_body.limit
    /\ \A k \in DOMAIN events : events[k].event_id \notin gm_body.earliest_events
    /\ gm_response.kind = "ok" =>
          /\ Len(gm_response.events) <= gm_body.limit
          /\ \A k \in DOMAIN gm_response.events :
                gm_response.events[k].event_id \notin gm_body.earliest_events
          /\ gm_body.limit = 0 => gm_response.events = <<>>

\* the walk skipped a stored earliest event and was stopped by the limit
C7_Witness ==
    /\ gm_response.kind = "ok"
    /\ gm_body.limit > 0 /\ Len(gm_response.events) = gm_body.limit
    /\ gm_i < Len(queued_events)
    /\ \E k \in 1..gm_i :
          /\ get_pdu_json(queued_events[k]).present
          /\ get_pdu_json(queued_events[k]).event_id \in gm_body.earliest_events

RECURSIVE EmittedUpTo(_)
\* the stored, non-earliest events among the first n queue entries, in queue order
EmittedUpTo(n) ==
    IF n = 0 THEN <<>>
    ELSE LET pdu == get_pdu_json(queued_events[n])
         IN  IF pdu.present /\ pdu.event_id \notin gm_body.earliest_events
             THEN Append(EmittedUpTo(n - 1), pdu)
             ELSE EmittedUpTo(n - 1)

RECURSIVE PrevEventsOf(_)
\* the prev_events of a list of events, concatenated in list order
PrevEventsOf(evs) ==
    IF evs = <<>> THEN <<>> ELSE evs[1].prev_events \o PrevEventsOf(Tail(evs))

EventIdsOf(evs) == [k \in DOMAIN evs |-> evs[k].event_id]

\* C8: the walk is a first-in first-out walk from latest_events.  The events
\* collected are the stored events among the ids popped so far that are not
\* in earliest_events, in pop order; the queue is latest_events followed by
\* the prev_events of the events collected, in that order; an id without a
\* local PDU fails nothing; the chain a <- b <- c <- d with latest [d],
\* earliest [b] and limit 10 gives [d, c].
C8_FifoWalk ==
    /\ gm_i <= Len(queued_events)
    /\ events = EmittedUpTo(gm_i)
    /\ queued_events = gm_body.latest_events \o PrevEventsOf(events)
    /\ gm_response.kind = "ok" =>
          /\ gm_response.events = events
          /\ gm_i = Len(queued_events) \/ Len(events) = gm_body.limit
    /\ (gm_response.kind = "err" /\ gm_response.error \notin {"database", GmBadConfig.error}) =>
          get_pdu_json(queued_events[gm_i + 1]).present
    /\ (/\ pdu_json = ChainStore
        /\ gm_body.latest_events = <<"$d">>
        /\ gm_body.earliest_events = {"$b"}
        /\ gm_body.limit = 10
        /\ gm_response.kind = "ok") => EventIdsOf(gm_response.events) = <<"$d", "$c">>

\* the chain scenario was walked to its end
C8_Witness ==
    /\ pdu_json = ChainStore
    /\ gm_body.latest_events = <<"$d">>
    /\ gm_body.earliest_events = {"$b"}
    /\ gm_body.limit = 10
    /\ gm_response.kind = "ok"
    /\ EventIdsOf(gm_response.events) = <<"$d", "$c">>
    /\ queued_events = <<"$d", "$c", "$b">>

----------------------------------------------------------------------------
(* Properties of the federation switch, checked under SpecRoutes *)

\* C9: with federation disabled every entry point fails at once: the key
\* routes answer the string "Federation is disabled.", the other routes and
\* send_request return the configuration error, and there is no typing
\* update, append, counter allocation, store read or network request.
C9_DisabledFailsFirst ==
    ~federation_enabled =>
        /\ effects = {}
        /\ typing = {} /\ appended = <<>> /\ counter \in StartCounts
        /\ \A h \in Handlers :
              /\ pc[h] \in {"idle", "done"}
              /\ pc[h] = "done" <=> response[h] = BadConfig
              /\ pc[h] = "idle" <=> response[h] = NoResponse
        /\ gm_pc \in {"idle", "done"}
        /\ gm_pc = "done" <=> gm_response = GmBadConfig
        /\ gm_pc = "idle" <=> gm_response = GmNoResponse
        /\ queued_events = <<>> /\ events = <<>>
        /\ sr_pc \in {"idle", "done"}
        /\ sr_pc = "done" <=> sr_response = SrErr("bad_config: Federation is disabled.")
        /\ sr_pc = "idle" <=> sr_response = SrNoResponse
        /\ srv_lookups = <<>> /\ actual_destination = NoName
        /\ \A r \in Routes :
              route_response[r] \in
                  {RtNone, IF r \in KeyRoutes THEN RtOk("Federation is disabled.")
                           ELSE RtErr("bad_config: Federation is disabled.")}

\* a request reached a route while federation was disabled
C9_Witness ==
    /\ ~federation_enabled
    /\ \/ \E h \in Handlers : response[h] = BadConfig
       \/ gm_response = GmBadConfig
    /\ effects = {}

----------------------------------------------------------------------------
(* Properties of send_request, checked under SpecResolve *)

\* the well-known value when there is one, else the name the caller passed
DelegatedHostname ==
    IF sr_delegated /= NoName THEN sr_delegated ELSE sr_request.destination

\* C10: once the destination is resolved, an SRV lookup of
\* _matrix._tcp.<delegated hostname> has been made, whatever the server
\* name; and when that lookup returned a record the destination is https://
\* with the first target, trailing dot stripped, and Host is the delegated
\* hostname.
C10_SrvLookupForEveryName ==
    actual_destination /= NoName =>
        /\ srv_lookups = << <<"_matrix._tcp.">> \o DelegatedHostname >>
        /\ srv_records /= <<>> =>
              /\ actual_destination = <<"https://">> \o trim_end_matches_dot(srv_records[1])
              /\ host = DelegatedHostname

\* C11: when no SRV record was obtained, the destination is https:// and the
\* hostname (the well-known value if there is one, else the name the caller
\* passed), followed by :8448 exactly when the hostname holds no port, and
\* no Host header is set; example.org without well-known and without SRV
\* gives https://example.org:8448.
C11_DefaultPortWithoutSrv ==
    (actual_destination /= NoName /\ srv_records = <<>>) =>
        /\ actual_destination =
              <<"https://">> \o DelegatedHostname
                  \o (IF \E k \in DOMAIN DelegatedHostname : DelegatedHostname[k] = ":"
                      THEN <<>> ELSE <<":", "8448">>)
        /\ host = NoName
        /\ (sr_request.destination = ExampleOrg /\ sr_delegated = NoName) =>
              actual_destination = <<"https://", "example.org", ":", "8448">>

\* example.org, no well-known, no SRV record: the request went out to
\* https://example.org:8448; and a delegated name with a port was used as it is
C11_Witness ==
    /\ sr_pc = "done" /\ sr_response = SrOk
    /\ srv_records = <<>> /\ host = NoName
    /\ \/ /\ sr_request.destination = ExampleOrg /\ sr_delegated = NoName
          /\ actual_destination = <<"https://", "example.org", ":", "8448">>
       \/ /\ sr_delegated = MatrixExampleOrgPort
          /\ actual_destination = <<"https://", "matrix.example.org", ":", "8443">>

----------------------------------------------------------------------------
(* Further properties of the /send route, checked under Spec *)

\* C12: a PDU submitted twice, in one transaction or in two, derives the
\* same event_id both times, and the second submission adds no append of
\* that PDU: no two append_pdu calls carry the same event_id.
C12_NoSecondAppend ==
    /\ \A g, h \in Handlers : \A i \in DOMAIN pdus[g], j \in DOMAIN pdus[h] :
          pdus[g][i] = pdus[h][j] => EventIdOf(pdus[g][i]) = EventIdOf(pdus[h][j])
    /\ \A i, j \in DOMAIN appended :
          appended[i].event_id = appended[j].event_id => i = j

\* handler h handles one EDU in this step
EduStep(h) ==
    /\ pc[h] = "edus" /\ edus_left[h] > 0
    /\ edus_left'[h] /= edus_left[h] \/ pc'[h] /= pc[h]

\* an EDU that does not decode, or an m.typing EDU without one of typing, user_id, room_id
Malformed(e) ==
    \/ ~e.decodes
    \/ /\ e.edu_type = "m.typing"
       /\ e.typing = "absent" \/ e.user_id = "absent" \/ e.room_id = "absent"

\* C13: an EDU that fails to decode, and an m.typing EDU that lacks typing,
\* user_id or room_id, is skipped: the typing store is unchanged, the
\* transaction is not aborted and the loop goes on.  A well-formed m.typing
\* EDU with typing = true records (user_id, room_id) with expiry
\* now + 3000 ms, and with typing = false clears it, when the typing store
\* accepts the call.
C13_Step ==
    \A h \in Handlers :
        EduStep(h) =>
            LET e == edu'[h]
            IN  /\ Malformed(e) =>
                      /\ typing' = typing
                      /\ pc'[h] = "edus" /\ response'[h] = NoResponse
                      /\ edus_left'[h] = edus_left[h] - 1
                /\ (/\ ~Malformed(e) /\ e.edu_type = "m.typing"
                    /\ response'[h] /= DbError) =>
                      /\ e.typing = "true" =>
                            \E now \in Times :
                                [user_id |-> e.user_id, room_id |-> e.room_id,
                                 timeout |-> now + 3000] \in typing'
                      /\ e.typing = "false" =>
                            ~\E t \in typing' : t.user_id = e.user_id /\ t.room_id = e.room_id

C13_MalformedEdusSkipped == [][C13_Step]_vars

UnknownRoomError == "Room is unknown to this server"

\* handler h leaves the head of the PDU loop having found the room unknown
UnknownRoomStep(h) ==
    /\ InLoop(h)
    /\ idx'[h] /= idx[h] \/ pc'[h] /= pc[h]
    /\ last'[h].exists = "false"

C14_Step ==
    \A h \in Handlers :
        UnknownRoomStep(h) =>
            /\ resolved_map'[h] = MapInsert(resolved_map[h], CurId(h), Err(UnknownRoomError))
            /\ last'[h].fetch = "-" /\ last'[h].joined = "-" /\ last'[h].resolver = "-"
            /\ last'[h].placement = "-" /\ ~last'[h].counted /\ last'[h].appends = 0
            /\ counter' = counter /\ appended' = appended
            /\ effects' \subseteq effects \cup {"store_read"}
            /\ pc'[h] = "pdus" /\ idx'[h] = idx[h] + 1
            /\ response'[h] = response[h]

C14_Inv ==
    \A h \in Handlers :
        /\ last[h].exists = "false" <=> last[h].result = UnknownRoomError
        /\ last[h].exists = "false" =>
              /\ last[h].event_id \in DOMAIN resolved_map[h]
              /\ resolved_map[h][last[h].event_id] = Err(UnknownRoomError)
              /\ pc[h] \in {"pdus", "done"}

\* C14: for a PDU whose room is unknown the entry of its derived event_id is
\* the error "Room is unknown to this server"; no state request, membership
\* check, state resolution, counter allocation or append is made for it,
\* and the loop goes on with the next PDU.
C14_UnknownRoomRecorded == []C14_Inv /\ [][C14_Step]_vars

\* an unknown-room PDU was followed by a PDU that was appended
C14_Witness ==
    \E h \in Handlers :
        /\ response[h].kind = "ok" /\ Len(pdus[h]) = 2
        /\ response[h].pdus[EventIdOf(pdus[h][1])] = Err(UnknownRoomError)
        /\ response[h].pdus[EventIdOf(pdus[h][2])] = Ok
        /\ \E k \in DOMAIN appended :
              appended[k].by = h /\ appended[k].event_id = EventIdOf(pdus[h][2])

NotJoinedError == "User is not in this room"

\* a non-state PDU's iteration ends in this step, its state request having succeeded
NonStateStepEnds(h) ==
    /\ pc[h] = "await" /\ pc'[h] /= "await"
    /\ ~IsState(CurValue(h))
    /\ last'[h].fetch = "ok"

\* what C15 says of a sender that is not joined
NotJoinedRecorded(h) ==
    last'[h].joined = "false" =>
        /\ last'[h].result = NotJoinedError
        /\ resolved_map'[h] = MapInsert(resolved_map[h], CurId(h), Err(NotJoinedError))
        /\ last'[h].placement = "-" /\ ~last'[h].counted /\ last'[h].appends = 0
        /\ last'[h].resolver = "-"
        /\ counter' = counter /\ appended' = appended
        /\ pc'[h] = "pdus" /\ idx'[h] = idx[h] + 1

\* the append of the PDU at hand, and its success entry
AppendedAndRecorded(h) ==
    /\ Len(appended') = Len(appended) + 1
    /\ SubSeq(appended', 1, Len(appended)) = appended
    /\ appended'[Len(appended')].event_id = CurId(h)
    /\ appended'[Len(appended')].room_id = CurValue(h).room_id
    /\ resolved_map'[h] = MapInsert(resolved_map[h], CurId(h), Ok)
    /\ last'[h].appends = 1

\* C15 as stated: a non-state PDU whose sender is not joined gets "User is
\* not in this room" without placement, count or append; one whose sender is
\* joined is placed and appended without the resolver and recorded as success.
C15_AsStatedStep ==
    \A h \in Handlers :
        NonStateStepEnds(h) =>
            /\ NotJoinedRecorded(h)
            /\ last'[h].joined = "true" =>
                  /\ last'[h].resolver = "-"
                  /\ last'[h].result = "ok"
                  /\ AppendedAndRecorded(h)

C15_JoinedIsAppended == [][C15_AsStatedStep]_vars

C15_Step ==
    \A h \in Handlers :
        NonStateStepEnds(h) =>
            /\ NotJoinedRecorded(h)
            /\ last'[h].joined = "true" =>
                  /\ last'[h].resolver = "-"
                  /\ (last'[h].result = "ok") <=>
                        (last'[h].placement \in {"append", "insert"} /\ last'[h].db_error = "-")
                  /\ last'[h].result = "ok" => AppendedAndRecorded(h)
                  /\ last'[h].result /= "ok" =>
                        /\ appended' = appended
                        /\ response'[h] \in {Panicked, DbError}
                        /\ pc'[h] = "done"

\* C15 amended: a non-state PDU whose sender is not joined gets "User is
\* not in this room" without placement, count or append.  One whose sender
\* is joined never reaches the resolver; it is appended once and recorded as
\* success exactly when get_closest_parent returns Append or Insert and no
\* store call fails; any other placement panics and a failing store call
\* returns its error, and then nothing is appended or recorded.
C15_JoinedIsPlacedOrAborts == [][C15_Step]_vars

\* a non-state PDU of a sender that is not joined, then one that was appended
C15_Witness ==
    \E h \in Handlers :
        /\ response[h].kind = "ok" /\ Len(pdus[h]) = 2
        /\ ~IsState(pdus[h][1]) /\ ~IsState(pdus[h][2])
        /\ response[h].pdus[EventIdOf(pdus[h][1])] = Err(NotJoinedError)
        /\ response[h].pdus[EventIdOf(pdus[h][2])] = Ok
        /\ last[h].joined = "true" /\ last[h].resolver = "-" /\ last[h].appends = 1

----------------------------------------------------------------------------
(* Further properties of send_request, checked under SpecResolve *)

\* C16: the object that is signed has the members method, uri, origin and
\* destination, and content exactly when the request body is not empty;
\* destination is the server name the caller passed, not the well-known or
\* SRV host, and origin is the local server name.
C16_SigningObjectMembers ==
    sr_pc \in {"http", "done"} /\ DOMAIN request_map /= {} =>
        /\ DOMAIN request_map =
              IF sr_request.body_empty THEN {"method", "uri", "origin", "destination"}
              ELSE {"method", "uri", "origin", "destination", "content"}
        /\ request_map["destination"] = sr_request.destination
        /\ request_map["destination"] \in Destinations
        /\ request_map["destination"] \notin {sr_delegated, host}
        /\ \A k \in DOMAIN srv_records :
              request_map["destination"] /= trim_end_matches_dot(srv_records[k])
        /\ request_map["origin"] = ServerName
        /\ request_map["method"] = <<sr_request.method>>
        /\ request_map["uri"] = <<sr_request.uri>>

\* a request with a body was signed after well-known and SRV moved the host
C16_Witness ==
    /\ sr_pc = "done" /\ sr_response = SrOk
    /\ ~sr_request.body_empty /\ "content" \in DOMAIN request_map
    /\ sr_delegated = MatrixExampleOrg /\ srv_records /= <<>>
    /\ actual_destination = <<"https://", "federation.internal">>
    /\ request_map["destination"] = ExampleOrg

----------------------------------------------------------------------------
(* Properties of the normalizer and of the order of processing, checked under Spec *)

\* C17: for every PDU received, process_incoming_pdu returns an object whose
\* event_id member is the derived id, whatever event_id the PDU carried on
\* the wire, with every other member unchanged; the ids the route works
\* with, and the keys of the result map, are the derived ids.
C17_NormalizerOverwritesId ==
    \A h \in Handlers :
        /\ \A k \in DOMAIN pdus[h] :
              LET pdu == pdus[h][k]
                  out == process_incoming_pdu(pdu)
              IN  /\ out.value.event_id = out.event_id
                  /\ out.event_id = <<"$", reference_hash(pdu)>>
                  /\ DOMAIN out.value = DOMAIN pdu \cup {"event_id"}
                  /\ \A f \in DOMAIN pdu \ {"event_id"} : out.value[f] = pdu[f]
        /\ InLoop(h) =>
              /\ CurValue(h).event_id = CurId(h)
              /\ CurId(h) = <<"$", reference_hash(CurPdu(h))>>
        /\ DOMAIN resolved_map[h] \subseteq
              {<<"$", reference_hash(pdus[h][k])>> : k \in DOMAIN pdus[h]}
        /\ response[h].kind = "ok" =>
              DOMAIN response[h].pdus =
                  {<<"$", reference_hash(pdus[h][k])>> : k \in DOMAIN pdus[h]}

\* a PDU that carried another event's id on the wire was answered under its derived id
C17_Witness ==
    \E h \in Handlers :
        /\ response[h].kind = "ok" /\ Len(pdus[h]) = 1
        /\ pdus[h][1].event_id /= NoId
        /\ pdus[h][1].event_id /= EventIdOf(pdus[h][1])
        /\ DOMAIN response[h].pdus = {EventIdOf(pdus[h][1])}
        /\ response[h].pdus[EventIdOf(pdus[h][1])] = Ok

\* the PDU loop of h has begun
PduPassBegun(h) ==
    \/ pc[h] \in {"pdus", "await"}
    \/ last[h].event_id /= NoId
    \/ DOMAIN resolved_map[h] /= {}
    \/ \E k \in DOMAIN appended : appended[k].by = h

\* the appends of one transaction follow the order of its PDUs, and the EDU
\* loop is over before the PDU loop begins
C18_Order ==
    /\ \A h \in Handlers :
          /\ PduPassBegun(h) => edus_left[h] = 0 /\ edu[h] = NoEdu
          /\ pc[h] = "edus" => idx[h] = 1 /\ last[h] = NoStep
    /\ \A a \in DOMAIN appended :
          /\ appended[a].index \in DOMAIN pdus[appended[a].by]
          /\ appended[a].event_id = EventIdOf(pdus[appended[a].by][appended[a].index])
          /\ appended[a].index <= idx[appended[a].by]
    /\ \A a, b \in DOMAIN appended :
          (/\ appended[a].by = appended[b].by
           /\ appended[a].kind = "append" /\ appended[b].kind = "append"
           /\ appended[a].index < appended[b].index) =>
              /\ a < b
              /\ appended[a].count < appended[b].count

\* the index moves one PDU at a time
C18_Step ==
    \A h \in Handlers :
        pc[h] /= "idle" => idx'[h] \in {idx[h], idx[h] + 1}

\* C18 as stated: of two PDUs of one transaction that are both placed as
\* Append, the earlier one is counted and appended first and has the
\* strictly smaller count and the strictly smaller storage key; the EDU
\* pass is over before the first PDU is processed.
C18_EarlierKeySmaller ==
    /\ C18_Order
    /\ \A a, b \in DOMAIN appended :
          (/\ appended[a].by = appended[b].by
           /\ appended[a].kind = "append" /\ appended[b].kind = "append"
           /\ appended[a].index < appended[b].index) =>
              LexLess(appended[a].pdu_id, appended[b].pdu_id)

C18_SameRoomKeys ==
    \A a, b \in DOMAIN appended :
        (/\ appended[a].by = appended[b].by
         /\ appended[a].kind = "append" /\ appended[b].kind = "append"
         /\ appended[a].index < appended[b].index
         /\ appended[a].room_id = appended[b].room_id) =>
            LexLess(appended[a].pdu_id, appended[b].pdu_id)

\* C18 amended: PDUs are processed one after the other in the order
\* received, after the whole EDU pass; of two PDUs of one transaction that
\* are both placed as Append the earlier one is counted and appended first
\* and has the strictly smaller count, and, when both are of the same room,
\* the strictly smaller storage key.
C18_InOrderSameRoomKeys == [](C18_Order /\ C18_SameRoomKeys) /\ [][C18_Step]_vars

\* a transaction with an EDU appended two PDUs of one room, in order
C18_Witness ==
    \E h \in Handlers : \E a, b \in DOMAIN appended :
        /\ n_edus[h] = 1 /\ response[h].kind = "ok"
        /\ appended[a].by = h /\ appended[b].by = h
        /\ appended[a].kind = "append" /\ appended[b].kind = "append"
        /\ appended[a].index = 1 /\ appended[b].index = 2
        /\ appended[a].room_id = appended[b].room_id
        /\ appended[a].event_id /= appended[b].event_id

\* get_closest_parent answers neither Append nor Insert for the PDU of h in this step
PlaceNoneStep(h) ==
    /\ pc[h] = "await" /\ pc'[h] /= "await"
    /\ last'[h].placement = "none"

C19_Step ==
    /\ \A h \in Handlers :
          /\ PlaceNoneStep(h) =>
                /\ last'[h].joined = "true" \/ last'[h].resolver = "ok_with"
                /\ pc'[h] = "done" /\ response'[h] = Panicked
                /\ response'[h].pdus = EmptyMap /\ resolved_map'[h] = EmptyMap
                /\ appended' = appended /\ counter' = counter
                /\ ~last'[h].counted /\ last'[h].appends = 0
                /\ idx'[h] = idx[h]
          /\ pc[h] = "done" =>
                /\ pc'[h] = "done" /\ response'[h] = response[h]
                /\ idx'[h] = idx[h] /\ last'[h] = last[h]
                /\ resolved_map'[h] = resolved_map[h]
    /\ IsPrefix(appended, appended')

C19_Inv ==
    \A h \in Handlers :
        last[h].placement = "none" =>
            /\ pc[h] = "done" /\ response[h] = Panicked
            /\ idx[h] \in DOMAIN pdus[h]
            /\ last[h].event_id = EventIdOf(pdus[h][idx[h]])
            /\ \A k \in DOMAIN appended :
                  appended[k].by = h => appended[k].index < idx[h]

\* C19: when get_closest_parent returns neither Append nor Insert for a PDU
\* that passed its checks, the route ends there: no response and no result
\* entry, no append and no count for that PDU, no processing of the later
\* PDUs, and the appends made for the earlier PDUs stay.
C19_PlacementNoneAborts == []C19_Inv /\ [][C19_Step]_vars

\* the first PDU was appended, the second could not be placed
C19_Witness ==
    \E h \in Handlers :
        /\ Len(pdus[h]) = 2 /\ idx[h] = 2
        /\ last[h].placement = "none" /\ response[h] = Panicked
        /\ \E k \in DOMAIN appended : appended[k].by = h /\ appended[k].index = 1

\* the state request of h's current PDU comes back in this step
FetchReturns(h) == pc[h] = "await" /\ pc'[h] /= "await"

C20_Step ==
    \A h \in Handlers :
        /\ (InLoop(h) /\ pc'[h] = "await") =>
              /\ last'[h].requested = Origin(h)
              /\ last'[h].fetch = "-" /\ last'[h].joined = "-" /\ last'[h].resolver = "-"
              /\ "network" \in effects'
        /\ FetchReturns(h) =>
              /\ last[h].requested = Origin(h)
              /\ last'[h].fetch \in {"ok", "err"}
              /\ last'[h].fetch = "err" =>
                    /\ last'[h].result \in FetchErrors
                    /\ resolved_map'[h] =
                          MapInsert(resolved_map[h], CurId(h), Err(last'[h].result))
                    /\ last'[h].joined = "-" /\ last'[h].resolver = "-"
                    /\ last'[h].placement = "-" /\ ~last'[h].counted /\ last'[h].appends = 0
                    /\ counter' = counter /\ appended' = appended
                    /\ effects' = effects
                    /\ pc'[h] = "pdus" /\ idx'[h] = idx[h] + 1

C20_Inv ==
    \A h \in Handlers :
        /\ pc[h] = "await" =>
              /\ last[h].exists = "true" /\ last[h].requested = Origin(h)
              /\ last[h].event_id = CurId(h)
        /\ (last[h].joined /= "-" \/ last[h].resolver /= "-" \/ last[h].placement /= "-") =>
              last[h].requested = Origin(h) /\ last[h].fetch = "ok"

\* C20: for a PDU of a known room, state or not, the room state is
\* requested from the origin of the transaction before anything else is
\* decided; when the request fails the PDU's entry is the request's error
\* string, no membership check, resolution, placement, count or append is
\* made for it, and the loop goes on with the next PDU.
C20_StateRequestedFirst == []C20_Inv /\ [][C20_Step]_vars

\* the request failed for a state PDU and the next PDU, not a state PDU, was appended
C20_Witness ==
    \E h \in Handlers :
        /\ response[h].kind = "ok" /\ Len(pdus[h]) = 2
        /\ IsState(pdus[h][1]) /\ ~IsState(pdus[h][2])
        /\ \E err \in FetchErrors : response[h].pdus[EventIdOf(pdus[h][1])] = Err(err)
        /\ response[h].pdus[EventIdOf(pdus[h][2])] = Ok
        /\ last[h].requested = Origin(h) /\ last[h].fetch = "ok"

C21_Step ==
    \A h \in Handlers :
        EduStep(h) =>
            /\ appended' = appended /\ counter' = counter
            /\ resolved_map' = resolved_map /\ resolved_map'[h] = EmptyMap
            /\ pdus' = pdus /\ idx' = idx
            /\ effects' \subseteq effects \cup {"typing"}
            /\ (edu'[h].decodes /\ edu'[h].edu_type /= "m.typing") =>
                  /\ typing' = typing /\ effects' = effects
                  /\ pc'[h] = "edus" /\ response' = response
                  /\ last' = last

RecordStep(h) ==
    /\ pc[h] \in {"pdus", "await"} /\ idx[h] \in DOMAIN pdus[h]
    /\ idx'[h] = idx[h] + 1

C22_Step ==
    \A h \in Handlers :
        RecordStep(h) =>
            LET event_id == CurId(h)
                room_id == CurValue(h).room_id
            IN  /\ event_id \in DOMAIN resolved_map'[h]
                /\ \A k \in DOMAIN resolved_map'[h] \ {event_id} :
                      k \in DOMAIN resolved_map[h] /\ resolved_map'[h][k] = resolved_map[h][k]
                /\ resolved_map'[h][event_id].ok =>
                      /\ Len(appended') = Len(appended) + 1
                      /\ SubSeq(appended', 1, Len(appended)) = appended
                      /\ LET call == appended'[Len(appended')]
                         IN  /\ call.event_id = event_id /\ call.room_id = room_id
                             /\ call.by = h /\ call.index = idx[h]
                             /\ \/ /\ call.kind = "append"
                                   /\ counter' = counter + 1 /\ call.count = counter'
                                   /\ call.pdu_id = room_id \o <<255>> \o BeBytes(call.count, 8)
                                \/ /\ call.kind = "insert"
                                   /\ counter' = counter
                                   /\ call.pdu_id =
                                         room_id \o <<255>> \o BeBytes(call.count, 8) \o <<1>>
                /\ ~resolved_map'[h][event_id].ok =>
                      /\ appended' = appended
                      /\ counter' = counter
                      /\ resolved_map'[h][event_id].error \in RecordedErrors

\* C22: each step that records success for a PDU makes exactly one
\* append_pdu call for it, with a key of the Append or the Insert shape for
\* the PDU's room; each step that records an error makes no append_pdu call
\* and takes no count.
C22_ResultMatchesStore == [][C22_Step]_vars

\* an error and an insertion were recorded in one transaction
C22_Witness ==
    \E h \in Handlers :
        /\ response[h].kind = "ok" /\ Len(pdus[h]) = 2
        /\ ~response[h].pdus[EventIdOf(pdus[h][1])].ok
        /\ response[h].pdus[EventIdOf(pdus[h][2])].ok
        /\ last[h].placement = "insert"
        /\ Len(appended) = 1 /\ appended[1].by = h /\ appended[1].kind = "insert"
        /\ counter \in StartCounts


\* one iteration of the backfill loop is about to run
GmIterating == gm_pc = "walk" /\ LoopCond

\* what one iteration of the backfill loop does to the index, the queue and
\* the list of emitted events
C23_Step ==
    GmIterating =>
        \/ /\ gm_pc' = "done"
           /\ gm_response'.kind = "err"
           /\ UNCHANGED <<queued_events, events, gm_i>>
        \/ /\ gm_pc' = "walk"
           /\ gm_i' = gm_i + 1
           /\ gm_i' <= Len(queued_events)
           /\ \/ UNCHANGED <<queued_events, events>>
              \/ /\ Len(events') = Len(events) + 1
                 /\ Len(events') <= gm_body.limit
                 /\ queued_events' = queued_events \o events'[Len(events')].prev_events
           /\ \/ gm_body.limit - Len(events') < gm_body.limit - Len(events)
              \/ /\ Len(events') = Len(events)
                 /\ Len(queued_events') - gm_i' < Len(queued_events) - gm_i

\* C23: the backfill walk terminates for every store and request.  Each loop
\* iteration that does not return advances the index by one, the queue grows
\* only in an iteration that emits an event, at most limit events are
\* emitted, so the pair (limit - emitted, queue length - index) decreases in
\* every iteration; and every request that entered the walk gets its
\* response, also over a diamond or a cycle of prev_events.
C23_WalkTerminates ==
    /\ [][C23_Step]_vars
    /\ (gm_pc = "walk") ~> (gm_pc = "done")

\* a walk around the cycle a -> b -> a that ended at the limit, the two ids
\* emitted more than once
C23_Witness ==
    /\ pdu_json = CycleStore
    /\ gm_pc = "done" /\ gm_response.kind = "ok"
    /\ gm_body.limit = 10 /\ Len(gm_response.events) = 10
    /\ gm_i = 10 /\ Len(queued_events) > gm_i
    /\ \E j, k \in DOMAIN gm_response.events :
          j < k /\ gm_response.events[j].event_id = gm_response.events[k].event_id


\* C24: the backfill response never contains the same event twice: each
\* event id occurs at most once in the returned events list, also over a
\* diamond of prev_events or when latest_events lists an id twice.
C24_NoEventTwice ==
    gm_response.kind = "ok" =>
        \A j, k \in DOMAIN gm_response.events :
            gm_response.events[j].event_id = gm_response.events[k].event_id => j = k

\* C25: get_missing_events only returns events of the requested room: every
\* returned event has the room_id of the request, also when latest_events
\* names ids of events stored for another room.
C25_OnlyRequestedRoom ==
    gm_response.kind = "ok" =>
        \A k \in DOMAIN gm_response.events :
            gm_response.events[k].room_id = gm_body.room_id

====
